---- MODULE Spec2Model ----
(***************************************************************************)
(* The parcel-delivery server of src/index.js (its last, complete version, *)
(* lines 76-521): an Express application over MongoDB collections, with    *)
(* Firebase token verification on two routes.                              *)
(*                                                                         *)
(* Every request is served by an async handler, which runs without         *)
(* interruption from one `await` to the next; handlers of different        *)
(* requests interleave at their awaits only.  One action of the model is   *)
(* the completion of one awaited call (its effect on the store, or its     *)
(* rejection) together with the code that follows it, up to the next await *)
(* or to the end of the handler.  The code before a handler's first await  *)
(* reads and writes nothing but the request, so it is taken together with  *)
(* the completion of that first call.                                      *)
(*                                                                         *)
(* Requests carry no identity of their own: the handlers suspended between *)
(* two calls are a bag of request records, at most NReq of them, and       *)
(* `last` is the request whose handler ended in the step just taken, as    *)
(* its client sees it at that moment.                                      *)
(*                                                                         *)
(* An unhandled rejection ends the handler without a response; that Node   *)
(* may be configured to end the process on it is not modelled.             *)
(***************************************************************************)
EXTENDS Integers, Sequences, FiniteSets, Bags

\* ---- bounds of the model -------------------------------------------------
NReq == 2          \* handlers suspended between two calls at the same time
MaxParcels == 2    \* parcel documents ever inserted
MaxUsers == 2      \* user documents ever inserted
MaxRiders == 1     \* rider documents ever inserted

\* ---- values ---------------------------------------------------------------
Emails == {"a", "b"}
\* The emails that request bodies carry (queries and tokens range over Emails).
BodyEmails == {"a"}
\* JavaScript's undefined (an absent body field, query parameter or claim).
Undefined == "undefined"
\* A string that is no ObjectId: `new ObjectId(s)` throws, ObjectId.isValid(s)
\* is false.  Well-formed ids are the positive integers; 0 is an absent id.
MalformedId == 0 - 1
NoId == 0

Truthy(x) == x # Undefined /\ x # ""

ObjectIdIsValid(id) == id > 0

VARIABLES
    parcels,     \* parcelsCollection: _id -> document
    parcelSeq,   \* number of parcel _ids the store has generated
    payments,    \* paymentsCollection, in insertion order; _id = position
    users,       \* usersCollection, in insertion order; _id = position
    riders,      \* ridersCollection, in insertion order; _id = position
    inflight,    \* the bag of requests whose handler is suspended at an await
    last         \* the request whose handler ended in the step just taken
                 \* (Blank when none did)

vars == <<parcels, parcelSeq, payments, users, riders, inflight, last>>

\* A request before its handler has run.
\*   pc      where the handler is suspended ("done": it returned; "hung": it
\*           ended in an unhandled rejection)
\*   status  the status of the response the client received, 0 while none
\*   n       the count or id the response carries (insertedId, modifiedCount,
\*           deletedCount)
\*   docs    the documents the response carries
\*   log     the store and provider calls the handler has issued, in order
\*   failed  whether a store or provider call made for the request rejected
\*   found   what the request's completed update met in the store: "none" when
\*           its filter matched no document, else the value the matched
\*           document held in the field the update sets
Blank ==
    [kind |-> "none", pc |-> "idle", id |-> NoId, email |-> Undefined,
     amount |-> 0, arg |-> Undefined, header |-> <<>>, user |-> "none",
     status |-> 0, n |-> 0, docs |-> <<>>, log |-> <<>>, failed |-> FALSE,
     found |-> Undefined]

Ended(q) == q.pc \in {"done", "hung"}

\* res.status(st).json(...) / res.send(...) as the handler's last statement.
Respond(q, st, k, ds) ==
    [q EXCEPT !.pc = "done", !.status = st, !.n = k, !.docs = ds]

\* The handler issues `call` and is suspended at `label` until it completes.
Await(q, label, call) ==
    [q EXCEPT !.pc = label, !.log = Append(q.log, call)]

\* The awaited call rejects.
Rejected(q) == [q EXCEPT !.failed = TRUE]

\* An exception that escapes the handler (an async handler's rejection is
\* not handled by Express 4): the task ends, nothing more is sent.
Escapes(q) == [q EXCEPT !.pc = "hung"]

\* catch (err) { res.status(500)... }: a catch block that answers 500.
Catch500(q) == Respond(q, 500, 0, <<>>)

Init ==
    /\ parcels = <<>>
    /\ parcelSeq = 0
    /\ payments = <<>>
    /\ users = <<>>
    /\ riders = <<>>
    /\ inflight = EmptyBag
    /\ last = Blank

\* ---- scheduling ----------------------------------------------------------

\* A request arrives and its handler runs through its first awaited call to
\* its next await (or to its end), which leaves it as q.
Arrives(q) ==
    /\ BagCardinality(inflight) < NReq
    /\ inflight' = IF Ended(q) THEN inflight ELSE inflight (+) SetToBag({q})
    /\ last' = IF Ended(q) THEN q ELSE Blank

\* The handler of the request q in flight is suspended at `label`.
Suspended(q, kind, label) ==
    /\ BagIn(q, inflight)
    /\ q.kind = kind
    /\ q.pc = label

\* The handler of q resumes and runs to its next await (or to its end), which
\* leaves it as q2.
Resumes(q, q2) ==
    /\ inflight' = IF Ended(q2)
                     THEN inflight (-) SetToBag({q})
                     ELSE (inflight (-) SetToBag({q})) (+) SetToBag({q2})
    /\ last' = IF Ended(q2) THEN q2 ELSE Blank

\* ---- the parcels and payments collections ---------------------------------

\* collection.insertOne(doc) on parcels: the store generates a fresh _id.
InsertParcel(P, seq, doc) ==
    [i \in DOMAIN P \cup {seq + 1} |-> IF i = seq + 1 THEN doc ELSE P[i]]

\* collection.deleteOne({_id}) on parcels.
DeleteOneParcel(P, id) ==
    [coll |-> [i \in DOMAIN P \ {id} |-> P[i]],
     deletedCount |-> IF id \in DOMAIN P THEN 1 ELSE 0]

\* A mutant of UpdateOnePaid: modifiedCount reports the matched documents.
UpdateOnePaidMatched(P, id) ==
    [coll |-> IF id \in DOMAIN P
                THEN [P EXCEPT ![id].payment_status = "paid"] ELSE P,
     modifiedCount |-> IF id \in DOMAIN P THEN 1 ELSE 0]

\* A mutant of UpdateOnePaid: the update toggles payment_status instead of
\* setting it.
UpdateOnePaidToggle(P, id) ==
    [coll |-> IF id \in DOMAIN P
                THEN [P EXCEPT ![id].payment_status =
                        IF @ = "paid" THEN "unpaid" ELSE "paid"]
                ELSE P,
     modifiedCount |-> IF id \in DOMAIN P THEN 1 ELSE 0]

\* A mutant of UpdateOnePaid: modifiedCount is 1 whenever the update was
\* acknowledged.
UpdateOnePaidAcknowledged(P, id) ==
    [coll |-> IF id \in DOMAIN P
                THEN [P EXCEPT ![id].payment_status = "paid"] ELSE P,
     modifiedCount |-> 1]

\* parcelsCollection.updateOne({_id}, {$set: {payment_status: "paid"}}):
\* modifiedCount counts the documents the update changed, so a matched
\* document that already holds the value counts 0.
UpdateOnePaid(P, id) ==
    [coll |-> IF id \in DOMAIN P
                THEN [P EXCEPT ![id].payment_status = "paid"] ELSE P,
     modifiedCount |-> IF id \in DOMAIN P /\ P[id].payment_status # "paid"
                         THEN 1 ELSE 0]

\* What an update by _id meets in the parcels collection.
FoundParcel(P, id) == IF id \in DOMAIN P THEN P[id].payment_status ELSE "none"

\* ---- POST /parcels --------------------------------------------------------

\* The parcels that clients send: not yet paid.
ParcelBodies ==
    [payment_status : {"unpaid"}, created_by : BodyEmails, creation_date : {1}]

PostParcels ==
    LET q == Await([Blank EXCEPT !.kind = "PostParcels"],
                   "insertParcel", "parcels.insertOne") IN
    /\ \/ /\ parcelSeq < MaxParcels
          /\ \E doc \in ParcelBodies :
                parcels' = InsertParcel(parcels, parcelSeq, doc)
          /\ parcelSeq' = parcelSeq + 1
          /\ Arrives(Respond(q, 200, parcelSeq + 1, <<>>))
       \/ /\ Arrives(Catch500(Rejected(q)))
          /\ UNCHANGED <<parcels, parcelSeq>>
    /\ UNCHANGED <<payments, users, riders>>

\* ---- DELETE /parcels/:id --------------------------------------------------
ParcelIdParams == 1..MaxParcels \cup {MalformedId}

DeleteParcel ==
    \E id \in ParcelIdParams :
        LET q0 == [Blank EXCEPT !.kind = "DeleteParcel", !.id = id]
            q == Await(q0, "deleteParcel", "parcels.deleteOne")
            result == DeleteOneParcel(parcels, id) IN
        /\ \/ /\ ~ObjectIdIsValid(id)
              /\ Arrives(Respond(q0, 400, 0, <<>>))
              /\ UNCHANGED parcels
           \/ /\ ObjectIdIsValid(id)
              /\ parcels' = result.coll
              /\ Arrives(IF result.deletedCount = 0
                           THEN Respond(q, 404, 0, <<>>)
                           ELSE Respond(q, 200, result.deletedCount, <<>>))
           \/ /\ ObjectIdIsValid(id)
              /\ Arrives(Catch500(Rejected(q)))
              /\ UNCHANGED parcels
        /\ UNCHANGED <<parcelSeq, payments, users, riders>>

\* ---- POST /payments -------------------------------------------------------

\* The bodies of POST /payments: complete ones, and one lacking each of the
\* required fields (amount 0 is falsy, like an absent amount).
PaymentBodies ==
    [parcelId : ParcelIdParams, email : BodyEmails, amount : {5}]
    \cup {[parcelId |-> NoId, email |-> "a", amount |-> 5],
          [parcelId |-> 1, email |-> Undefined, amount |-> 5],
          [parcelId |-> 1, email |-> "a", amount |-> 0]}

\* catch (error) { console.error("...", err); res.status(500)... }: `err` is
\* not declared in the module, so the catch block itself throws a
\* ReferenceError before it sends anything.
PaymentsCatch(q) == Escapes(q)

\* The payment document of the request, inserted at logical time `at`.
PaymentDoc(q, at) ==
    [parcelId |-> q.id, email |-> q.email, amount |-> q.amount, paid_at |-> at]

\* A mutant of AfterUpdate: the test of modifiedCount is inverted.
AfterUpdateInverted(q, updateResult) ==
    IF updateResult.modifiedCount # 0
      THEN Respond(q, 404, 0, <<>>)
      ELSE Await(q, "insertPayment", "payments.insertOne")

\* A mutant of AfterUpdate: the handler goes on to the insert whatever the
\* update reported.
AfterUpdateNoCheck(q, updateResult) ==
    Await(q, "insertPayment", "payments.insertOne")

\* A mutant of AfterUpdate: a request that met a parcel already paid goes on
\* to the insert, as a repairing retry would.
AfterUpdateInsertsWhenPaid(q, updateResult) ==
    IF updateResult.modifiedCount = 0 /\ q.found # "paid"
      THEN Respond(q, 404, 0, <<>>)
      ELSE Await(q, "insertPayment", "payments.insertOne")

\* if (updateResult.modifiedCount === 0) return res.status(404)...; else the
\* handler builds the payment document and awaits its insert.
AfterUpdate(q, updateResult) ==
    IF updateResult.modifiedCount = 0
      THEN Respond(q, 404, 0, <<>>)
      ELSE Await(q, "insertPayment", "payments.insertOne")

\* The handler up to the completion of the parcel update.
PostPaymentsUpdate ==
    \E body \in PaymentBodies :
        LET q0 == [Blank EXCEPT !.kind = "PostPayments", !.id = body.parcelId,
                                !.email = body.email, !.amount = body.amount]
            q == Await(q0, "updateParcel", "parcels.updateOne")
            missing == body.parcelId = NoId \/ ~Truthy(body.email)
                          \/ body.amount = 0
            updateResult == UpdateOnePaid(parcels, body.parcelId) IN
        /\ \/ /\ missing
              /\ Arrives(Respond(q0, 400, 0, <<>>))
              /\ UNCHANGED parcels
           \/ /\ ~missing /\ ~ObjectIdIsValid(body.parcelId)
              /\ Arrives(PaymentsCatch(q0))
              /\ UNCHANGED parcels
           \/ /\ ~missing /\ ObjectIdIsValid(body.parcelId)
              /\ parcels' = updateResult.coll
              /\ Arrives(AfterUpdate(
                           [q EXCEPT !.found = FoundParcel(parcels, q.id)],
                           updateResult))
           \/ /\ ~missing /\ ObjectIdIsValid(body.parcelId)
              /\ Arrives(PaymentsCatch(Rejected(q)))
              /\ UNCHANGED parcels
        /\ UNCHANGED <<parcelSeq, payments, users, riders>>

PostPaymentsInsert ==
    \E q \in BagToSet(inflight) :
        /\ Suspended(q, "PostPayments", "insertPayment")
        /\ \/ /\ payments' = Append(payments, PaymentDoc(q, Len(payments) + 1))
              /\ Resumes(q, Respond(q, 201, Len(payments) + 1, <<>>))
           \/ /\ Resumes(q, PaymentsCatch(Rejected(q)))
              /\ UNCHANGED payments
        /\ UNCHANGED <<parcels, parcelSeq, users, riders>>

\* ---- the parcel and payment endpoints -------------------------------------
NextPay ==
    \/ PostParcels
    \/ DeleteParcel
    \/ PostPaymentsUpdate
    \/ PostPaymentsInsert

SpecPay == Init /\ [][NextPay]_vars

\* ---- the users and riders collections ------------------------------------

\* The position of the first user with this email, 0 when there is none:
\* the document that findOne({email}) returns and updateOne({email}) updates.
FirstWithEmail(U, email) ==
    IF \E i \in DOMAIN U : U[i].email = email
      THEN CHOOSE i \in DOMAIN U :
             /\ U[i].email = email
             /\ \A j \in DOMAIN U : U[j].email = email => i <= j
      ELSE 0

\* usersCollection.findOne({email}).
FindOneUser(U, email) == FirstWithEmail(U, email) # 0

\* usersCollection.updateOne({email}, {$set: {last_log_in: <now>}}).  The
\* timestamps are abstracted to "signup" (the value the client sent when the
\* record was created) and "login" (a timestamp the server wrote).
TouchUser(U, email) ==
    LET i == FirstWithEmail(U, email) IN
    IF i = 0 THEN U ELSE [U EXCEPT ![i].last_log_in = "login"]

\* usersCollection.updateOne({email}, {$set: {role: "rider"}}).
PromoteUser(U, email) ==
    LET i == FirstWithEmail(U, email) IN
    IF i = 0 THEN U ELSE [U EXCEPT ![i].role = "rider"]

\* A mutant of UpdateOneRole: modifiedCount reports the matched documents.
UpdateOneRoleMatched(U, id, role) ==
    [coll |-> IF id \in DOMAIN U THEN [U EXCEPT ![id].role = role] ELSE U,
     modifiedCount |-> IF id \in DOMAIN U THEN 1 ELSE 0]

\* usersCollection.updateOne({_id}, {$set: {role}}).
UpdateOneRole(U, id, role) ==
    [coll |-> IF id \in DOMAIN U THEN [U EXCEPT ![id].role = role] ELSE U,
     modifiedCount |-> IF id \in DOMAIN U /\ U[id].role # role THEN 1 ELSE 0]

\* What an update by _id meets in the users collection.
FoundUser(U, id) == IF id \in DOMAIN U THEN U[id].role ELSE "none"

\* ridersCollection.updateOne({_id}, {$set: {status}}).
UpdateOneStatus(R, id, status) ==
    [coll |-> IF id \in DOMAIN R THEN [R EXCEPT ![id].status = status] ELSE R,
     modifiedCount |-> IF id \in DOMAIN R /\ R[id].status # status THEN 1 ELSE 0]

\* ---- POST /users ----------------------------------------------------------

\* The user records that clients send.
UserBodies == [email : BodyEmails, role : {"user"}, last_log_in : {"signup"}]

\* if (userExists) { await usersCollection.updateOne(...) ... } else the
\* handler awaits the insert of the body.
AfterFindUser(q, userExists) ==
    IF userExists
      THEN Await(q, "touchUser", "users.updateOne")
      ELSE Await(q, "insertUser", "users.insertOne")

\* The handler up to the completion of findOne.
PostUsersFind ==
    \E body \in UserBodies :
        LET q == Await([Blank EXCEPT !.kind = "PostUsers",
                                     !.email = body.email, !.arg = body.role],
                       "findUser", "users.findOne") IN
        /\ \/ Arrives(AfterFindUser(q, FindOneUser(users, q.email)))
           \/ Arrives(Catch500(Rejected(q)))
        /\ UNCHANGED <<parcels, parcelSeq, payments, users, riders>>

PostUsersTouch ==
    \E q \in BagToSet(inflight) :
        /\ Suspended(q, "PostUsers", "touchUser")
        /\ \/ /\ users' = TouchUser(users, q.email)
              /\ Resumes(q, Respond(q, 200, 0, <<>>))
           \/ /\ Resumes(q, Catch500(Rejected(q)))
              /\ UNCHANGED users
        /\ UNCHANGED <<parcels, parcelSeq, payments, riders>>

PostUsersInsert ==
    \E q \in BagToSet(inflight) :
        /\ Suspended(q, "PostUsers", "insertUser")
        /\ \/ /\ Len(users) < MaxUsers
              /\ users' = Append(users, [email |-> q.email, role |-> q.arg,
                                         last_log_in |-> "signup"])
              /\ Resumes(q, Respond(q, 201, Len(users) + 1, <<>>))
           \/ /\ Resumes(q, Catch500(Rejected(q)))
              /\ UNCHANGED users
        /\ UNCHANGED <<parcels, parcelSeq, payments, riders>>

\* ---- PATCH /users/:id/role ------------------------------------------------
UserIdParams == 1..MaxUsers \cup {MalformedId}
RoleParams == {"admin", "user", "rider"}

\* if (result.modifiedCount === 0) return res.status(404)...; else 200 with
\* the modified count.
AfterRoleUpdate(q, result) ==
    IF result.modifiedCount = 0
      THEN Respond(q, 404, 0, <<>>)
      ELSE Respond(q, 200, result.modifiedCount, <<>>)

PatchUserRole ==
    \E id \in UserIdParams, role \in RoleParams :
        LET q0 == [Blank EXCEPT !.kind = "PatchUserRole", !.id = id,
                                !.arg = role]
            q == Await(q0, "updateRole", "users.updateOne")
            valid == role \in {"admin", "user"}
            result == UpdateOneRole(users, id, role) IN
        /\ \/ /\ ~valid
              /\ Arrives(Respond(q0, 400, 0, <<>>))
              /\ UNCHANGED users
           \/ /\ valid /\ ~ObjectIdIsValid(id)
              /\ Arrives(Catch500(q0))
              /\ UNCHANGED users
           \/ /\ valid /\ ObjectIdIsValid(id)
              /\ users' = result.coll
              /\ Arrives(AfterRoleUpdate(
                           [q EXCEPT !.found = FoundUser(users, id)], result))
           \/ /\ valid /\ ObjectIdIsValid(id)
              /\ Arrives(Catch500(Rejected(q)))
              /\ UNCHANGED users
        /\ UNCHANGED <<parcels, parcelSeq, payments, riders>>

\* ---- the user endpoints ---------------------------------------------------
NextUsers ==
    \/ PostUsersFind
    \/ PostUsersTouch
    \/ PostUsersInsert
    \/ PatchUserRole

SpecUsers == Init /\ [][NextUsers]_vars

\* ---- POST /riders ---------------------------------------------------------

\* catch (error) { console.error("...", err); ... }: as in POST /payments,
\* the catch block throws a ReferenceError before it sends anything.
RidersCatch(q) == Escapes(q)

PostRiders ==
    LET q == Await([Blank EXCEPT !.kind = "PostRiders"],
                   "insertRider", "riders.insertOne") IN
    /\ \/ /\ Len(riders) < MaxRiders
          /\ riders' = Append(riders, [status |-> "pending"])
          /\ Arrives(Respond(q, 201, Len(riders) + 1, <<>>))
       \/ /\ Arrives(RidersCatch(Rejected(q)))
          /\ UNCHANGED riders
    /\ UNCHANGED <<parcels, parcelSeq, payments, users>>

\* ---- PATCH /riders/:id ----------------------------------------------------
RiderIdParams == 1..MaxRiders \cup {MalformedId}
StatusParams == {"accepted", "rejected"}

\* if (status === "accepted") { await usersCollection.updateOne(...) }
\* res.send(result)
AfterStatusUpdate(q, result) ==
    IF q.arg = "accepted"
      THEN Await([q EXCEPT !.n = result.modifiedCount],
                 "promoteUser", "users.updateOne")
      ELSE Respond(q, 200, result.modifiedCount, <<>>)

\* The handler up to the completion of the rider update.  It has no
\* try/catch: whatever throws or rejects escapes it.
PatchRiderUpdate ==
    \E id \in RiderIdParams, status \in StatusParams, email \in Emails :
        LET q0 == [Blank EXCEPT !.kind = "PatchRider", !.id = id,
                                !.arg = status, !.email = email]
            q == Await(q0, "updateRider", "riders.updateOne")
            result == UpdateOneStatus(riders, id, status) IN
        /\ \/ /\ ~ObjectIdIsValid(id)
              /\ Arrives(Escapes(q0))
              /\ UNCHANGED riders
           \/ /\ ObjectIdIsValid(id)
              /\ riders' = result.coll
              /\ Arrives(AfterStatusUpdate(q, result))
           \/ /\ ObjectIdIsValid(id)
              /\ Arrives(Escapes(Rejected(q)))
              /\ UNCHANGED riders
        /\ UNCHANGED <<parcels, parcelSeq, payments, users>>

PatchRiderPromote ==
    \E q \in BagToSet(inflight) :
        /\ Suspended(q, "PatchRider", "promoteUser")
        /\ \/ /\ users' = PromoteUser(users, q.email)
              /\ Resumes(q, Respond(q, 200, q.n, <<>>))
           \/ /\ Resumes(q, Escapes(Rejected(q)))
              /\ UNCHANGED users
        /\ UNCHANGED <<parcels, parcelSeq, payments, riders>>

\* ---- the rider endpoints, with the sign-up of users ------------------------
NextRiders ==
    \/ PostUsersFind
    \/ PostUsersTouch
    \/ PostUsersInsert
    \/ PostRiders
    \/ PatchRiderUpdate
    \/ PatchRiderPromote

SpecRiders == Init /\ [][NextRiders]_vars

\* ---- the token verifier ---------------------------------------------------

BearerPrefix == <<"B", "e", "a", "r", "e", "r", " ">>

\* The Authorization headers of the requests: none, a token without the
\* prefix, the prefix alone, the prefix and a second space, and the prefix
\* with each of the tokens "g", "h" and "x".
Headers ==
    {<<>>, <<"g">>, BearerPrefix, BearerPrefix \o <<" ", "g">>}
    \cup {BearerPrefix \o <<t>> : t \in {"g", "h", "x"}}

\* authHeader.startsWith("Bearer ")
StartsWithBearer(h) ==
    /\ Len(h) >= Len(BearerPrefix)
    /\ SubSeq(h, 1, Len(BearerPrefix)) = BearerPrefix

\* authHeader.split(" ")[1] of a header that starts with "Bearer ": what
\* lies between its first space and its second (or its end).
TokenOf(h) ==
    LET rest == SubSeq(h, Len(BearerPrefix) + 1, Len(h))
        spaces == {i \in DOMAIN rest : rest[i] = " "}
        stop == IF spaces = {} THEN Len(rest) + 1
                ELSE CHOOSE i \in spaces : \A j \in spaces : i <= j
    IN SubSeq(rest, 1, stop - 1)

\* A mutant of Unauthenticated: the empty token is not tested.
UnauthenticatedNoTokenTest(h) == h = <<>> \/ ~StartsWithBearer(h)

\* if (!authHeader || !authHeader.startsWith("Bearer ")) return 401;
\* const token = authHeader.split(" ")[1]; if (!token) return 401
Unauthenticated(h) ==
    \/ h = <<>>
    \/ ~StartsWithBearer(h)
    \/ TokenOf(h) = <<>>

\* The tokens the identity provider has issued, and the email claim of each.
IssuedTokens == {<<"g">>, <<"h">>}
EmailClaim(token) == IF token = <<"g">> THEN "a" ELSE "b"

\* ---- GET /payments --------------------------------------------------------
EmailQueries == Emails \cup {Undefined}

\* b sorted before a by {sort: {key: -1}}.
RECURSIVE InsertDesc(_, _)
InsertDesc(sorted, d) ==
    IF sorted = <<>> THEN <<d>>
    ELSE IF d.key > Head(sorted).key THEN <<d>> \o sorted
    ELSE <<Head(sorted)>> \o InsertDesc(Tail(sorted), d)

\* The documents in descending order of their keys, documents of equal keys
\* in their order in the collection.
RECURSIVE SortDesc(_)
SortDesc(docs) ==
    IF docs = <<>> THEN <<>>
    ELSE InsertDesc(SortDesc(SubSeq(docs, 1, Len(docs) - 1)), docs[Len(docs)])

Unkeyed(keyed) == [i \in DOMAIN keyed |-> keyed[i].doc]

\* paymentsCollection.find(userEmail ? {email: userEmail} : {},
\*                         {sort: {paid_at: -1}}).toArray()
FindPayments(P, userEmail) ==
    LET match(d) == ~Truthy(userEmail) \/ d.email = userEmail
        keyed == [i \in DOMAIN P |-> [key |-> P[i].paid_at, doc |-> P[i]]]
    IN Unkeyed(SortDesc(SelectSeq(keyed, LAMBDA k : match(k.doc))))

\* A mutant of IdentityMismatch: a request without the email parameter is
\* let through, and so is any request whose token carries an email.
IdentityMismatchLax(user, userEmail) == ~Truthy(user) /\ Truthy(userEmail)

\* req?.user?.email !== userEmail
IdentityMismatch(user, userEmail) == user # userEmail

\* res.json(...) after the response's headers were sent throws.
HeadersSent(q) == q.status # 0

\* catch (error) { res.status(500).json(...) }: when the response was sent
\* already, the catch block throws in its turn.
GetCatch(q) == IF HeadersSent(q) THEN Escapes(q) ELSE Catch500(q)

\* res.json(docs), inside the try.
AfterFind(q, docs) ==
    IF HeadersSent(q) THEN GetCatch(q) ELSE Respond(q, 200, 0, docs)

\* A mutant of PaymentsBody: the handler returns after it answered 403.
PaymentsBodyHalts(q) ==
    IF IdentityMismatch(q.user, q.email)
      THEN Respond(q, 403, 0, <<>>)
      ELSE Await(q, "findPayments", "payments.find")

\* The body of the GET /payments handler up to its await: on a mismatch it
\* sends 403 and goes on.
PaymentsBody(q) ==
    Await(IF IdentityMismatch(q.user, q.email)
            THEN [q EXCEPT !.status = 403] ELSE q,
          "findPayments", "payments.find")

\* verifyFBToken, then the handler up to its await.
GetPaymentsVerify ==
    \E h \in Headers, userEmail \in EmailQueries :
        LET q0 == [Blank EXCEPT !.kind = "GetPayments", !.header = h,
                                !.email = userEmail]
            q == Await(q0, "verifyIdToken", "auth.verifyIdToken") IN
        /\ \/ /\ Unauthenticated(h)
              /\ Arrives(Respond(q0, 401, 0, <<>>))
           \/ /\ ~Unauthenticated(h)
              /\ Arrives(Respond(q, 403, 0, <<>>))
           \/ /\ ~Unauthenticated(h)
              /\ TokenOf(h) \in IssuedTokens
              /\ Arrives(PaymentsBody(
                           [q EXCEPT !.user = EmailClaim(TokenOf(h))]))
        /\ UNCHANGED <<parcels, parcelSeq, payments, users, riders>>

GetPaymentsFind ==
    \E q \in BagToSet(inflight) :
        /\ Suspended(q, "GetPayments", "findPayments")
        /\ \/ Resumes(q, AfterFind(q, FindPayments(payments, q.email)))
           \/ Resumes(q, GetCatch(Rejected(q)))
        /\ UNCHANGED <<parcels, parcelSeq, payments, users, riders>>

\* ---- GET /parcels ---------------------------------------------------------

\* parcelsCollection.find(email ? {created_by: email} : {},
\*                        {sort: {creation_date: -1}}).toArray()
FindParcels(P, seq, email) ==
    LET ids == SelectSeq([i \in 1..seq |-> i], LAMBDA i : i \in DOMAIN P)
        match(d) == ~Truthy(email) \/ d.created_by = email
        keyed == [i \in DOMAIN ids |->
                    [key |-> P[ids[i]].creation_date,
                     doc |-> [id |-> ids[i],
                              payment_status |-> P[ids[i]].payment_status,
                              created_by |-> P[ids[i]].created_by]]]
    IN Unkeyed(SortDesc(SelectSeq(keyed, LAMBDA k : match(k.doc))))

\* The body of the GET /parcels handler up to its await.
ParcelsBody(q) == Await(q, "findParcels", "parcels.find")

ParcelQueries == BodyEmails \cup {Undefined}

\* verifyFBToken, then the handler up to its await.
GetParcelsVerify ==
    \E h \in Headers, email \in ParcelQueries :
        LET q0 == [Blank EXCEPT !.kind = "GetParcels", !.header = h,
                                !.email = email]
            q == Await(q0, "verifyIdToken", "auth.verifyIdToken") IN
        /\ \/ /\ Unauthenticated(h)
              /\ Arrives(Respond(q0, 401, 0, <<>>))
           \/ /\ ~Unauthenticated(h)
              /\ Arrives(Respond(q, 403, 0, <<>>))
           \/ /\ ~Unauthenticated(h)
              /\ TokenOf(h) \in IssuedTokens
              /\ Arrives(ParcelsBody(
                           [q EXCEPT !.user = EmailClaim(TokenOf(h))]))
        /\ UNCHANGED <<parcels, parcelSeq, payments, users, riders>>

GetParcelsFind ==
    \E q \in BagToSet(inflight) :
        /\ Suspended(q, "GetParcels", "findParcels")
        /\ \/ Resumes(q, AfterFind(q, FindParcels(parcels, parcelSeq, q.email)))
           \/ Resumes(q, GetCatch(Rejected(q)))
        /\ UNCHANGED <<parcels, parcelSeq, payments, users, riders>>

\* ---- the two guarded routes, with the creation of parcels -----------------
NextAuth ==
    \/ PostParcels
    \/ GetPaymentsVerify
    \/ GetPaymentsFind
    \/ GetParcelsVerify
    \/ GetParcelsFind

SpecAuth == Init /\ [][NextAuth]_vars

\* ---- the payment history, with the endpoints that fill it -----------------
NextHistory ==
    \/ PostParcels
    \/ PostPaymentsUpdate
    \/ PostPaymentsInsert
    \/ GetPaymentsVerify
    \/ GetPaymentsFind

SpecHistory == Init /\ [][NextHistory]_vars

\* ---- claims about the parcel and payment endpoints -----------------------

\* The number of times the handler of q issued `call`.
Issued(q, call) == Cardinality({i \in DOMAIN q.log : q.log[i] = call})

\* A request's handler ends in this step.
EndsHere == Ended(last')

\* C1: a POST /payments with parcelId, email and amount present, whose update
\* met an existing parcel that was not yet paid and none of whose store
\* calls failed, ends with the parcel (while it exists) paid, with one
\* payment insert issued, the inserted record carrying the request's
\* parcelId, and with the response 201 carrying that record's id.
C1_UnpaidParcelIsPaidAndRecorded ==
    (/\ last.kind = "PostPayments"
     /\ Ended(last)
     /\ last.found = "unpaid"
     /\ ~last.failed)
    => /\ last.status = 201
       /\ last.log = <<"parcels.updateOne", "payments.insertOne">>
       /\ last.n \in DOMAIN payments
       /\ payments[last.n].parcelId = last.id
       /\ payments[last.n].email = last.email
       /\ last.id \in DOMAIN parcels
            => parcels[last.id].payment_status = "paid"

C1_Witness ==
    /\ last.kind = "PostPayments"
    /\ last.found = "unpaid"
    /\ last.status = 201
    /\ last.id \in DOMAIN parcels

C3_SecondPaymentInserts ==
    (/\ last.kind = "PostPayments"
     /\ Ended(last)
     /\ last.found = "paid"
     /\ ~last.failed)
    => /\ last.status = 201
       /\ Issued(last, "payments.insertOne") = 1

\* C3, amended: a POST /payments for a parcel that an earlier POST /payments
\* marked paid modifies nothing, is answered 404 and inserts no payment
\* record; the parcel stays paid.
C3_SecondPaymentRejected ==
    (/\ last.kind = "PostPayments"
     /\ Ended(last)
     /\ last.found = "paid")
    => /\ last.status = 404
       /\ Issued(last, "payments.insertOne") = 0
       /\ last.id \in DOMAIN parcels
            => parcels[last.id].payment_status = "paid"

C3_Witness ==
    /\ last.kind = "PostPayments"
    /\ last.found = "paid"
    /\ last.status = 404
    /\ \E i \in DOMAIN payments : payments[i].parcelId = last.id

\* C8: no step takes an existing parcel from paid to anything else while the
\* parcel exists.
C8_PaidStaysPaid ==
    [][\A id \in DOMAIN parcels :
          (parcels[id].payment_status = "paid" /\ id \in DOMAIN parcels')
          => parcels'[id].payment_status = "paid"]_vars

\* A parcel is paid, a parcel was deleted, and a second payment for the paid
\* parcel has just been handled.
C8_Witness ==
    /\ last.kind = "PostPayments"
    /\ last.found = "paid"
    /\ last.id \in DOMAIN parcels
    /\ parcels[last.id].payment_status = "paid"
    /\ Cardinality(DOMAIN parcels) < parcelSeq

\* C9: a request for which a store call failed is answered 500.
C9_FailureAnswered500 ==
    (Ended(last) /\ last.failed) => last.status = 500

\* The payment records of the parcel id.
PaymentsOf(id) == {i \in DOMAIN payments : payments[i].parcelId = id}

\* A POST /payments for the parcel id is suspended at its insert.
InsertPending(id) ==
    \E q \in BagToSet(inflight) :
        q.kind = "PostPayments" /\ q.pc = "insertPayment" /\ q.id = id

\* The parcel id is paid, has no payment record, and none is on its way.
Unreconciled(id) ==
    /\ id \in DOMAIN parcels
    /\ parcels[id].payment_status = "paid"
    /\ PaymentsOf(id) = {}
    /\ ~InsertPending(id)

\* C11: when the payment insert of a POST /payments fails after its parcel
\* update succeeded, the handler ends with the parcel (while it exists) paid
\* and without a payment record of that parcelId; and from a state where a
\* parcel is paid with no payment record stored or pending, no step stores
\* or starts a payment record for it or makes it unpaid: the parcel stays so
\* until it is deleted, and a retry of POST /payments changes nothing.
C11_PaidWithoutRecordStays ==
    /\ []((/\ last.kind = "PostPayments"
           /\ Ended(last)
           /\ last.failed
           /\ last.log = <<"parcels.updateOne", "payments.insertOne">>)
          => /\ last.status # 201
             /\ PaymentsOf(last.id) = {}
             /\ last.id \in DOMAIN parcels => Unreconciled(last.id))
    /\ [][\A id \in DOMAIN parcels :
            Unreconciled(id)
            => /\ PaymentsOf(id)' = {}
               /\ ~InsertPending(id)'
               /\ id \in DOMAIN parcels' => Unreconciled(id)']_vars

\* A retry of POST /payments has ended for a parcel that is paid without a
\* payment record, and has left it so.
C11_Witness ==
    /\ last.kind = "PostPayments"
    /\ last.found = "paid"
    /\ last.status = 404
    /\ Unreconciled(last.id)

\* The number of POST /payments for the parcel id suspended at their insert.
PendingInserts(id) ==
    LET S == {q \in BagToSet(inflight) :
                q.kind = "PostPayments" /\ q.pc = "insertPayment" /\ q.id = id}
    IN BagCardinality([q \in S |-> CopiesIn(q, inflight)])

\* C13: of the POST /payments for one parcel, however they interleave, at
\* most one is at or past its insert (the payment records of a parcelId and
\* the inserts pending for it number one at most); a request answered 201
\* is the one whose update met the parcel unpaid, and its record is the only
\* one of the parcelId; a request whose update met the parcel paid is
\* answered 404 and issues no insert.
C13_OnePaymentPerParcel ==
    /\ \A id \in 1..MaxParcels :
          Cardinality(PaymentsOf(id)) + PendingInserts(id) <= 1
    /\ (last.kind = "PostPayments" /\ last.status = 201)
       => /\ last.found = "unpaid"
          /\ PaymentsOf(last.id) = {last.n}
          /\ PendingInserts(last.id) = 0
    /\ (last.kind = "PostPayments" /\ last.found = "paid")
       => /\ last.status = 404
          /\ Issued(last, "payments.insertOne") = 0

\* A request is answered 404 while the request that marked the parcel paid
\* is still suspended at its insert.
C13_Witness ==
    /\ last.kind = "PostPayments"
    /\ last.found = "paid"
    /\ last.status = 404
    /\ PendingInserts(last.id) = 1
    /\ PaymentsOf(last.id) = {}

\* ---- claims about the user and rider endpoints -----------------------------

\* C4: the users collection holds at most one record of each email.
C4_OneUserPerEmail ==
    \A i, j \in DOMAIN users : users[i].email = users[j].email => i = j

\* C7: when a PATCH /riders/:id with status "accepted" and email e has
\* completed, every user record with the email e has the role "rider"; and
\* the handler issued the rider update first and the user update after it.
C7_AcceptedRiderPromotesUser ==
    (/\ last.kind = "PatchRider"
     /\ last.pc = "done"
     /\ last.arg = "accepted")
    => /\ last.log = <<"riders.updateOne", "users.updateOne">>
       /\ \A i \in DOMAIN users :
             users[i].email = last.email => users[i].role = "rider"

\* C10 as stated: PATCH /users/:id/role with a valid role answers 404 if and
\* only if no user record matches the id.
C10_NotFoundIffNoMatch ==
    (/\ last.kind = "PatchUserRole"
     /\ Ended(last)
     /\ last.arg \in {"admin", "user"}
     /\ ~last.failed)
    => (last.status = 404
          <=> (~ObjectIdIsValid(last.id) \/ last.found = "none"))

\* C10, amended: PATCH /users/:id/role answers 400 without a store call when
\* the role is neither admin nor user; else 500 when the id is no ObjectId
\* or the update fails; else 404 if and only if the update modified nothing
\* (no user matches the id, or the user has the role already); else 200
\* with modified count 1 and the user holding the role.  Only the 200 case
\* changes the users collection.
C10_RoleUpdateAnswers ==
    /\ []((last.kind = "PatchUserRole" /\ Ended(last))
          => /\ last.arg \notin {"admin", "user"}
                  => (last.status = 400 /\ last.log = <<>>)
             /\ (last.arg \in {"admin", "user"} /\ ~ObjectIdIsValid(last.id))
                  => (last.status = 500 /\ last.log = <<>>)
             /\ last.failed => last.status = 500
             /\ last.status = 404 <=> last.found \in {"none", last.arg}
             /\ last.status = 200
                  <=> last.found \notin {Undefined, "none", last.arg}
             /\ last.status = 200
                  => /\ last.n = 1
                     /\ last.id \in DOMAIN users
                     /\ users[last.id].role = last.arg)
    /\ [][(/\ EndsHere
           /\ last'.kind = "PatchUserRole"
           /\ last'.status # 200)
          => users' = users]_vars

C10_Witness ==
    /\ last.kind = "PatchUserRole"
    /\ last.status = 404
    /\ last.found = last.arg
    /\ last.id \in DOMAIN users

\* ---- claims about the guarded routes --------------------------------------

\* C5: a GET /payments?email=x whose verified token carries another email
\* has received 403, and no documents, whether its handler is still running
\* or has ended.
C5_MismatchGets403 ==
    \A q \in BagToSet(inflight) \cup {last} :
        (q.kind = "GetPayments" /\ q.user # "none" /\ q.user # q.email)
        => (q.status = 403 /\ q.docs = <<>>)

\* The handler has ended after a mismatch while the store holds payments of
\* the email asked for.
C5_Witness ==
    /\ last.kind = "GetPayments"
    /\ Ended(last)
    /\ last.user = "b"
    /\ last.email = "a"
    /\ last.status = 403
    /\ \E i \in DOMAIN payments : payments[i].email = "a"

\* C12: a GET /payments whose verified token carries another email than the
\* one asked for has issued the payments query after the 403 was sent, and
\* is suspended at it; once the query has completed or failed the handler
\* has tried to send a second response, which throws, and has ended in an
\* unhandled rejection with the 403 the only response.
C12_MismatchDoesNotHalt ==
    /\ \A q \in BagToSet(inflight) :
          (q.kind = "GetPayments" /\ q.user # "none" /\ q.user # q.email)
          => /\ q.pc = "findPayments"
             /\ q.status = 403
             /\ q.log = <<"auth.verifyIdToken", "payments.find">>
    /\ (last.kind = "GetPayments" /\ last.user # "none"
          /\ last.user # last.email)
       => /\ last.pc = "hung"
          /\ last.status = 403
          /\ last.log = <<"auth.verifyIdToken", "payments.find">>

\* The query of a mismatching request has completed, with payments in the
\* store, and the handler has ended in the rejection.
C12_Witness ==
    /\ last.kind = "GetPayments"
    /\ last.user = "a"
    /\ last.email = "b"
    /\ last.pc = "hung"
    /\ ~last.failed
    /\ Issued(last, "payments.find") = 1
    /\ payments # <<>>

\* The header is absent, lacks the "Bearer " prefix, or has nothing or a
\* space right after the prefix.
NoCredential(h) ==
    \/ h = <<>>
    \/ Len(h) < 7
    \/ <<h[1], h[2], h[3], h[4], h[5], h[6], h[7]>>
          # <<"B", "e", "a", "r", "e", "r", " ">>
    \/ Len(h) = 7
    \/ h[8] = " "

\* C6: a request to GET /parcels or GET /payments without a credential is
\* answered 401 with no verification attempted; one whose verification was
\* attempted and failed is answered 403 and its handler body does not run;
\* a handler body that runs has the claims of the request's token attached.
C6_VerifierGuardsRoutes ==
    \A q \in BagToSet(inflight) \cup {last} :
        q.kind \in {"GetParcels", "GetPayments"}
        => /\ NoCredential(q.header)
                => (q.status = 401 /\ q.log = <<>> /\ q.pc = "done")
           /\ (~NoCredential(q.header) /\ q.user = "none")
                => /\ q.status = 403
                   /\ q.log = <<"auth.verifyIdToken">>
                   /\ q.pc = "done"
           /\ Len(q.log) > 1
                => /\ q.log[1] = "auth.verifyIdToken"
                   /\ ~NoCredential(q.header)
                   /\ q.user \in Emails
                   /\ q.header \in {BearerPrefix \o <<"g">>,
                                    BearerPrefix \o <<"h">>}
                   /\ q.user = "a" <=> q.header[8] = "g"

\* The body of GET /parcels ran for a verified token and delivered parcels,
\* while the body of a GET /payments with another verified token is running.
C6_Witness ==
    /\ last.kind = "GetParcels"
    /\ last.status = 200
    /\ last.user = "a"
    /\ last.docs # <<>>
    /\ \E q \in BagToSet(inflight) :
          q.kind = "GetPayments" /\ q.user = "b" /\ q.pc = "findPayments"

====
